---------------------------- MODULE Spec2Model ----------------------------
(***************************************************************************)
(* A model of the data-gradients analysis pipeline.                        *)
(*                                                                         *)
(*  - AnalysisManager (src/manager.py): run = build, validate, execute,    *)
(*    post_process, close.  execute pulls train/val batches and hands them *)
(*    to the extractors, on the calling thread when debug_mode is set and  *)
(*    through a ThreadPoolExecutor otherwise.                              *)
(*  - DatasetAdapter (batch_processors/adapters/base.py): resolution of    *)
(*    the images / labels extractor of a raw batch.                        *)
(*                                                                         *)
(* The module-level flag debug_mode and the attributes _length_data, _task *)
(* and _yaml_path (read by the manager but set outside manager.py) are     *)
(* inputs of a run, drawn in Init.  The iterators and the extractors are   *)
(* the caller's: a run learns the length of an iterator when next() raises *)
(* StopIteration, and the batch an extractor raises on when it raises.     *)
(***************************************************************************)
EXTENDS Integers, Sequences, FiniteSets, TLC

\* ------------------------------------------------------------- bounds ---
MaxExtractors == 2      \* features listed in the yaml file
MaxTrain      == 5      \* batches of a train iterator of known length
MaxVal        == 2      \* batches of a val iterator of known length
MaxLength     == 5      \* _length_data, the bound of the RUN loop
MaxWorkers    == 2      \* worker threads of the pool that run at once
MaxFaultBatch == 2      \* the raising batch is one of the first ones
MaxPoolLoad   == 4      \* thread-pool mode: extractors times loop bound
MaxCalls      == 3      \* DatasetAdapter.extract calls of one run
MaxElems      == 3      \* elements of a raw batch
MaxMatches    == 2      \* dataset detectors that match one raw batch
MaxClasses    == 2      \* largest n_classes
MaxNames      == 2      \* longest list of class names
MaxUpdates    == 2      \* update calls made on one feature extractor
MaxAggregates == 2      \* aggregate calls made on one feature extractor

\* ---------------------------------------------------------- constants ---
DebugLimit == 3         \* `if train_batch > 3 and debug_mode: continue`

Splits == {"train", "val"}

VARIABLES
    \* inputs of a run
    debug_mode, fe_list, train_len, val_given, val_len, length_data,
    \* AnalysisManager fields
    train_only, train_extractors, val_extractors,
    \* position in run() and in execute()
    phase, pc, train_batch, j, batch_data, err,
    \* the iterators
    train_pulled, val_pulled, val_stopped,
    \* the thread pool and the local `futures` of execute
    futures_bound, futures, queue, running,
    \* the extractors: calls received, accumulated state, process() calls,
    \* the call that raised
    calls, acc, processed, fault,
    \* result of the sequential run, for the comparison of the two modes
    seq_acc,
    \* DatasetAdapter
    images_extractor, labels_extractor, adapter_log, adapter_calls, adapter_ret,
    raw,            \* the raw batch a single call of extract is made on
    \* DetectionAnalysisManager.__init__
    ctor,           \* arguments, locals, position and outcome of the constructor
    \* one feature extractor on its own
    fx              \* its class, its state, the calls made on it and the last result

inputVars   == <<debug_mode, fe_list, train_len, val_given, val_len, length_data>>
managerVars == <<train_only, train_extractors, val_extractors, phase, pc, train_batch,
                 j, batch_data, err, train_pulled, val_pulled, val_stopped>>
poolVars    == <<futures_bound, futures, queue, running>>
extrVars    == <<calls, acc, processed, fault>>
adapterVars == <<images_extractor, labels_extractor, adapter_log, adapter_calls,
                 adapter_ret, raw>>
vars == <<inputVars, managerVars, poolVars, extrVars, seq_acc, adapterVars, ctor, fx>>

\* ------------------------------------------------------------ helpers ---
\* An extractor instance: the split it was built for and its position.
Instances == Splits \X (1..MaxExtractors)

\* fault: the extractor and batch of the run's raising execute call, once
\* it has raised; NoFault when the extractors of the run never raise
Undecided == <<"undecided", 0, 0>>
NoFault == <<"none", 0, 0>>
NoBatch == <<"none", 0>>

\* extractor.execute(batch) has raised on batch k
Raises(inst, k) == fault = <<inst[1], inst[2], k>>

\* whether this execute call raises
Outcomes(inst, k) ==
    IF Raises(inst, k) THEN {TRUE}
    ELSE IF fault = Undecided /\ k <= MaxFaultBatch THEN BOOLEAN
    ELSE {FALSE}

\* train_len, val_len: the batches an iterator yields, Unknown until
\* next() raises StopIteration
Unknown == -1

\* whether next() yields another batch after `pulled` of them
HasNext(pulled, len) ==
    IF len = Unknown THEN BOOLEAN ELSE {pulled < len}

\* FEATURE_EXTRACTORS[fe](train_set=...) for every entry of fe_list
BuildList(split, n) == [i \in 1..n |-> <<split, i>>]

\* [submit(extractor.execute, batch_data) for extractor in extractors]
SubmitAll(extractors, k, c) ==
    [i \in 1..Len(extractors) |-> [inst |-> extractors[i], batch |-> k, copy |-> c]]

Range(s) == {s[i] : i \in 1..Len(s)}

\* a future is done once its task has left the work queue and the workers
Live == Range(queue) \cup {r.task : r \in running}

\* ------------------------------------------------------------ initial ---
None == [kind |-> "None", at |-> 0]
NoLog == [task \in {"images", "labels"} |-> [pos |-> 0, det |-> 0, ask |-> 0, wr |-> 0]]
\* an optional argument: None, or a value
Nothing == <<>>
Some(x) == <<x>>
\* no DetectionAnalysisManager is being constructed
NoCtor == [args |-> Nothing, class_names |-> Nothing, class_names_to_use |-> Nothing,
           line |-> "idle", created |-> {}, error |-> "none"]
\* no feature extractor is looked at on its own
NoFx == [kind |-> "none"]
\* no raw batch is at hand
NoData == [kind |-> "none", elems |-> <<>>, matches |-> 0]
\* no call of extract has been made yet
NoReturn == [images |-> None, labels |-> None, stage |-> "none",
             outcome |-> "none"]
NoResult == [inst \in Instances |-> -1]

AdapterIdle ==
    /\ images_extractor = None
    /\ labels_extractor = None
    /\ adapter_log = NoLog
    /\ adapter_calls = 0
    /\ adapter_ret = NoReturn
    /\ raw = NoData

\* the inputs of one run
InputsInit ==
    /\ debug_mode \in BOOLEAN
    /\ fe_list \in 0..MaxExtractors
    /\ train_len = Unknown
    /\ val_given \in BOOLEAN
    /\ val_len = Unknown
    /\ length_data \in 0..MaxLength
    /\ debug_mode \/ fe_list * length_data <= MaxPoolLoad

\* __init__ that sets self._train_only = False whatever it is given
ManagerStart_ValAlways ==
    /\ train_only = FALSE
    /\ train_extractors = <<>>
    /\ val_extractors = <<>>
    /\ phase = "BUILD"
    /\ pc = "loop"
    /\ train_batch = 0
    /\ j = 1
    /\ batch_data = NoBatch
    /\ err = "none"
    /\ train_pulled = 0
    /\ val_pulled = 0
    /\ val_stopped = FALSE
    /\ futures_bound = FALSE
    /\ futures = {}
    /\ queue = <<>>
    /\ running = {}
    /\ calls = [inst \in Instances |-> <<>>]
    /\ acc = [inst \in Instances |-> 0]
    /\ processed = <<>>
    /\ seq_acc = NoResult

\* AnalysisManager.__init__, and the extractors and the pool before any call
ManagerStart ==
    /\ train_only = ~val_given
    /\ train_extractors = <<>>
    /\ val_extractors = <<>>
    /\ phase = "BUILD"
    /\ pc = "loop"
    /\ train_batch = 0
    /\ j = 1
    /\ batch_data = NoBatch
    /\ err = "none"
    /\ train_pulled = 0
    /\ val_pulled = 0
    /\ val_stopped = FALSE
    /\ futures_bound = FALSE
    /\ futures = {}
    /\ queue = <<>>
    /\ running = {}
    /\ calls = [inst \in Instances |-> <<>>]
    /\ acc = [inst \in Instances |-> 0]
    /\ processed = <<>>
    /\ seq_acc = NoResult

Init ==
    InputsInit /\ ManagerStart /\ fault = Undecided /\ AdapterIdle /\ ctor = NoCtor
    /\ fx = NoFx

\* ---------------------------------------------------- AnalysisManager ---
Fail(e) ==
    /\ phase' = "FAILED"
    /\ err' = e

\* build with one instance per feature, put on both lists
Build_SharedInstances ==
    /\ phase = "BUILD"
    /\ \E ok \in BOOLEAN :
         IF ok
         THEN /\ train_extractors' = BuildList("train", fe_list)
              /\ val_extractors' = BuildList("train", fe_list)
              /\ phase' = "VALIDATE"
              /\ err' = err
         ELSE /\ Fail("build")
              /\ UNCHANGED <<train_extractors, val_extractors>>
    /\ UNCHANGED <<inputVars, train_only, pc, train_batch, j, batch_data,
                   train_pulled, val_pulled, val_stopped, poolVars, extrVars,
                   seq_acc, adapterVars, ctor, fx>>

\* run(): self.build()
Build ==
    /\ phase = "BUILD"
    /\ \E ok \in BOOLEAN :
         IF ok
         THEN /\ train_extractors' = BuildList("train", fe_list)
              /\ val_extractors' = BuildList("val", fe_list)
              /\ phase' = "VALIDATE"
              /\ err' = err
         ELSE /\ Fail("build")
              /\ UNCHANGED <<train_extractors, val_extractors>>
    /\ UNCHANGED <<inputVars, train_only, pc, train_batch, j, batch_data,
                   train_pulled, val_pulled, val_stopped, poolVars, extrVars,
                   seq_acc, adapterVars, ctor, fx>>

\* validate_data_iterables with a failure that is noted and passed over
Validate_Swallowed ==
    /\ phase = "VALIDATE"
    /\ \E ok \in BOOLEAN :
         /\ phase' = "RUN"
         /\ err' = IF ok THEN err ELSE "validate"
    /\ UNCHANGED <<inputVars, train_only, train_extractors, val_extractors, pc,
                   train_batch, j, batch_data, train_pulled, val_pulled,
                   val_stopped, poolVars, extrVars, seq_acc, adapterVars, ctor, fx>>

\* run(): self.validate_data_iterables()
Validate ==
    /\ phase = "VALIDATE"
    /\ \E ok \in BOOLEAN :
         IF ok THEN phase' = "RUN" /\ err' = err
               ELSE Fail("validate")
    /\ UNCHANGED <<inputVars, train_only, train_extractors, val_extractors, pc,
                   train_batch, j, batch_data, train_pulled, val_pulled,
                   val_stopped, poolVars, extrVars, seq_acc, adapterVars, ctor, fx>>

\* where execute goes once the train (resp. val) extractors are through
AfterFan(here, next, jj, extractors) ==
    IF jj > Len(extractors) THEN next ELSE here

\* execute(): `for train_batch in trange(self._length_data)` is exhausted
LoopExit ==
    /\ phase = "RUN" /\ pc = "loop"
    /\ train_batch >= length_data
    /\ phase' = "AGGREGATE"
    /\ j' = 1
    /\ UNCHANGED <<inputVars, train_only, train_extractors, val_extractors, pc,
                   train_batch, batch_data, err, train_pulled, val_pulled,
                   val_stopped, poolVars, extrVars, seq_acc, adapterVars, ctor, fx>>

\* execute(): `if train_batch > 3 and debug_mode: continue`
LoopSkip ==
    /\ phase = "RUN" /\ pc = "loop"
    /\ train_batch < length_data
    /\ train_batch > DebugLimit /\ debug_mode
    /\ train_batch' = train_batch + 1
    /\ UNCHANGED <<inputVars, train_only, train_extractors, val_extractors, phase,
                   pc, j, batch_data, err, train_pulled, val_pulled,
                   val_stopped, poolVars, extrVars, seq_acc, adapterVars, ctor, fx>>

\* execute(): batch_data = self._get_batch(self._train_iter)
\* _get_batch: next(dataloader), then self._preprocessor.preprocess
GetTrainBatch ==
    /\ phase = "RUN" /\ pc = "loop"
    /\ train_batch < length_data
    /\ ~(train_batch > DebugLimit /\ debug_mode)
    /\ \E more \in HasNext(train_pulled, train_len) :
       IF more
       THEN /\ train_pulled' = train_pulled + 1
            /\ \E ok \in BOOLEAN :
                 IF ok
                 THEN /\ batch_data' = <<"train", train_pulled + 1>>
                      /\ j' = 1
                      /\ pc' = AfterFan("fan_train", "val", 1, train_extractors)
                      /\ UNCHANGED <<phase, err>>
                 ELSE \* preprocess raises, which nothing in run() catches
                      /\ Fail("preprocess")
                      /\ UNCHANGED <<batch_data, j, pc>>
       ELSE \* next() raises StopIteration, which nothing in run() catches
            /\ Fail("StopIteration")
            /\ UNCHANGED <<train_pulled, batch_data, j, pc>>
    /\ UNCHANGED <<inputVars, train_only, train_extractors, val_extractors,
                   train_batch, val_pulled, val_stopped, poolVars, extrVars,
                   seq_acc, adapterVars, ctor, fx>>

\* extractor.execute(batch_data) on the calling thread
Execute(inst, k) ==
    /\ calls' = [calls EXCEPT ![inst] = Append(@, k)]
    /\ \E raises \in Outcomes(inst, k) :
         IF raises
         THEN /\ Fail("update")
              /\ fault' = <<inst[1], inst[2], k>>
              /\ UNCHANGED acc
         ELSE /\ acc' = [acc EXCEPT ![inst] = @ + 1]
              /\ UNCHANGED <<phase, err, fault>>

\* the train fan-out going through the list from its end
FanTrain_Reversed ==
    /\ phase = "RUN" /\ pc = "fan_train"
    /\ j <= Len(train_extractors)
    /\ IF debug_mode
       THEN /\ Execute(train_extractors[Len(train_extractors) + 1 - j], batch_data[2])
            /\ UNCHANGED poolVars
       ELSE LET new == SubmitAll(train_extractors, batch_data[2], j) IN
            /\ queue' = queue \o new
            /\ futures' = Range(new)
            /\ futures_bound' = TRUE
            /\ UNCHANGED <<running, calls, acc, fault, phase, err>>
    /\ j' = j + 1
    /\ pc' = AfterFan("fan_train", "val", j + 1, train_extractors)
    /\ UNCHANGED <<inputVars, train_only, train_extractors, val_extractors,
                   train_batch, batch_data, train_pulled, val_pulled,
                   val_stopped, processed, seq_acc, adapterVars, ctor, fx>>

\* execute(): one iteration of `for extractor in self._train_extractors`
FanTrain ==
    /\ phase = "RUN" /\ pc = "fan_train"
    /\ j <= Len(train_extractors)
    /\ IF debug_mode
       THEN /\ Execute(train_extractors[j], batch_data[2])
            /\ UNCHANGED poolVars
       ELSE \* futures = [submit(...) for extractor in self._train_extractors]
            LET new == SubmitAll(train_extractors, batch_data[2], j) IN
            /\ queue' = queue \o new
            /\ futures' = Range(new)
            /\ futures_bound' = TRUE
            /\ UNCHANGED <<running, calls, acc, fault, phase, err>>
    /\ j' = j + 1
    /\ pc' = AfterFan("fan_train", "val", j + 1, train_extractors)
    /\ UNCHANGED <<inputVars, train_only, train_extractors, val_extractors,
                   train_batch, batch_data, train_pulled, val_pulled,
                   val_stopped, processed, seq_acc, adapterVars, ctor, fx>>

\* execute(): `if not self._train_only:` is false
ValSkipped ==
    /\ phase = "RUN" /\ pc = "val"
    /\ train_only
    /\ pc' = "wait"
    /\ UNCHANGED <<inputVars, train_only, train_extractors, val_extractors, phase,
                   train_batch, j, batch_data, err, train_pulled, val_pulled,
                   val_stopped, poolVars, extrVars, seq_acc, adapterVars, ctor, fx>>

\* GetValBatch without the `except StopIteration` clause
GetValBatch_Uncaught ==
    /\ phase = "RUN" /\ pc = "val"
    /\ ~train_only
    /\ \E more \in HasNext(val_pulled, val_len) :
       IF more
       THEN /\ val_pulled' = val_pulled + 1
            /\ \E ok \in BOOLEAN :
                 IF ok
                 THEN /\ batch_data' = <<"val", val_pulled + 1>>
                      /\ j' = 1
                      /\ pc' = AfterFan("fan_val", "wait", 1, val_extractors)
                      /\ UNCHANGED <<phase, err>>
                 ELSE \* preprocess raises something else than StopIteration
                      /\ Fail("preprocess")
                      /\ UNCHANGED <<batch_data, j, pc>>
            /\ UNCHANGED <<train_only, val_stopped>>
       ELSE /\ Fail("StopIteration")
            /\ val_stopped' = TRUE
            /\ UNCHANGED <<train_only, val_pulled, batch_data, j, pc>>
    /\ UNCHANGED <<inputVars, train_extractors, val_extractors,
                   train_batch, train_pulled, poolVars, extrVars,
                   seq_acc, adapterVars, ctor, fx>>

\* execute(): try: batch_data = self._get_batch(self._val_iter)
GetValBatch ==
    /\ phase = "RUN" /\ pc = "val"
    /\ ~train_only
    /\ \E more \in HasNext(val_pulled, val_len) :
       IF more
       THEN /\ val_pulled' = val_pulled + 1
            /\ \E ok \in BOOLEAN :
                 IF ok
                 THEN /\ batch_data' = <<"val", val_pulled + 1>>
                      /\ j' = 1
                      /\ pc' = AfterFan("fan_val", "wait", 1, val_extractors)
                      /\ UNCHANGED <<phase, err>>
                 ELSE \* preprocess raises something else than StopIteration
                      /\ Fail("preprocess")
                      /\ UNCHANGED <<batch_data, j, pc>>
            /\ UNCHANGED <<train_only, val_stopped>>
       ELSE \* except StopIteration: self._train_only = True
            /\ train_only' = TRUE
            /\ val_stopped' = TRUE
            /\ pc' = "wait"
            /\ UNCHANGED <<val_pulled, batch_data, j, phase, err>>
    /\ UNCHANGED <<inputVars, train_extractors, val_extractors,
                   train_batch, train_pulled, poolVars, extrVars,
                   seq_acc, adapterVars, ctor, fx>>

\* execute(): one iteration of `for extractor in self._val_extractors`
FanVal ==
    /\ phase = "RUN" /\ pc = "fan_val"
    /\ j <= Len(val_extractors)
    /\ IF debug_mode
       THEN /\ Execute(val_extractors[j], batch_data[2])
            /\ UNCHANGED poolVars
       ELSE \* futures += [submit(...) for extractor in self._val_extractors]
            LET new == SubmitAll(val_extractors, batch_data[2], j) IN
            /\ queue' = queue \o new
            /\ futures' = futures \cup Range(new)
            /\ UNCHANGED <<futures_bound, running, calls, acc, fault, phase, err>>
    /\ j' = j + 1
    /\ pc' = AfterFan("fan_val", "wait", j + 1, val_extractors)
    /\ UNCHANGED <<inputVars, train_only, train_extractors, val_extractors,
                   train_batch, batch_data, train_pulled, val_pulled,
                   val_stopped, processed, seq_acc, adapterVars, ctor, fx>>

\* execute(): `if not debug_mode: concurrent.futures.wait(futures, ALL_COMPLETED)`
WaitFutures ==
    /\ phase = "RUN" /\ pc = "wait"
    /\ IF debug_mode
       THEN /\ pc' = "loop"
            /\ train_batch' = train_batch + 1
            /\ UNCHANGED <<phase, err>>
       ELSE IF ~futures_bound
       THEN \* `futures` was never assigned: UnboundLocalError
            /\ Fail("UnboundLocalError")
            /\ UNCHANGED <<pc, train_batch>>
       ELSE /\ futures \cap Live = {}
            /\ pc' = "loop"
            /\ train_batch' = train_batch + 1
            /\ UNCHANGED <<phase, err>>
    /\ UNCHANGED <<inputVars, train_only, train_extractors, val_extractors,
                   j, batch_data, train_pulled, val_pulled, val_stopped,
                   poolVars, extrVars, seq_acc, adapterVars, ctor, fx>>

\* a worker thread takes the oldest work item and calls extractor.execute:
\* it reads the accumulator ...
StartTask ==
    /\ queue # <<>>
    /\ Cardinality(running) < MaxWorkers
    /\ LET t == Head(queue) IN
         /\ running' = running \cup {[task |-> t, snap |-> acc[t.inst]]}
         /\ calls' = [calls EXCEPT ![t.inst] = Append(@, t.batch)]
    /\ queue' = Tail(queue)
    /\ UNCHANGED <<inputVars, managerVars, futures_bound, futures, acc,
                   processed, fault, seq_acc, adapterVars, ctor, fx>>

\* ... and writes it back (`self._hist[n] += 1` is a read, an add and a
\* write), or raises, which the future keeps and nobody reads
FinishTask ==
    \E r \in running :
      /\ running' = running \ {r}
      /\ \E raises \in Outcomes(r.task.inst, r.task.batch) :
           IF raises
           THEN /\ fault' = <<r.task.inst[1], r.task.inst[2], r.task.batch>>
                /\ UNCHANGED acc
           ELSE /\ acc' = [acc EXCEPT ![r.task.inst] = r.snap + 1]
                /\ UNCHANGED fault
      /\ UNCHANGED <<inputVars, managerVars, futures_bound, futures, queue,
                     calls, processed, seq_acc, adapterVars, ctor, fx>>

\* post_process(): one iteration of
\* `for val_extractor, train_extractor in zip(self._val_extractors, self._train_extractors)`
PostProcess ==
    /\ phase = "AGGREGATE"
    /\ j <= Len(train_extractors)
    /\ \E vok, tok \in BOOLEAN :
         LET v == IF train_only THEN <<>> ELSE <<val_extractors[j]>>
         IN  IF ~train_only /\ ~vok
             THEN /\ processed' = processed \o v
                  /\ Fail("process")
             ELSE /\ processed' = processed \o v \o <<train_extractors[j]>>
                  /\ IF tok THEN UNCHANGED <<phase, err>> ELSE Fail("process")
    /\ j' = j + 1
    /\ UNCHANGED <<inputVars, train_only, train_extractors, val_extractors, pc,
                   train_batch, batch_data, train_pulled, val_pulled, val_stopped,
                   poolVars, calls, acc, fault, seq_acc, adapterVars, ctor, fx>>

\* run(): post_process() has returned
PostProcessDone ==
    /\ phase = "AGGREGATE"
    /\ j > Len(train_extractors)
    /\ phase' = "CLOSE"
    /\ UNCHANGED <<inputVars, train_only, train_extractors, val_extractors, pc,
                   train_batch, j, batch_data, err, train_pulled, val_pulled,
                   val_stopped, poolVars, extrVars, seq_acc, adapterVars, ctor, fx>>

\* run(): self.close()
Close ==
    /\ phase = "CLOSE"
    /\ phase' = "DONE"
    /\ UNCHANGED <<inputVars, train_only, train_extractors, val_extractors, pc,
                   train_batch, j, batch_data, err, train_pulled, val_pulled,
                   val_stopped, poolVars, extrVars, seq_acc, adapterVars, ctor, fx>>

Next ==
    \/ Build
    \/ Validate
    \/ LoopExit
    \/ LoopSkip
    \/ GetTrainBatch
    \/ FanTrain
    \/ ValSkipped
    \/ GetValBatch
    \/ FanVal
    \/ WaitFutures
    \/ StartTask
    \/ FinishTask
    \/ PostProcess
    \/ PostProcessDone
    \/ Close

Spec == Init /\ [][Next]_vars

\* --------------------------------------- the two modes on one input ---
\* The same input (iterators of known length, extractors that do not raise)
\* is run to its end with debug_mode set, the accumulators are kept in
\* seq_acc, and a fresh manager runs it again on the pool.
Rerun ==
    /\ phase = "DONE" /\ debug_mode /\ seq_acc = NoResult
    /\ seq_acc' = acc
    /\ debug_mode' = FALSE
    /\ train_only' = ~val_given
    /\ train_extractors' = <<>>
    /\ val_extractors' = <<>>
    /\ phase' = "BUILD"
    /\ pc' = "loop"
    /\ train_batch' = 0
    /\ j' = 1
    /\ batch_data' = NoBatch
    /\ err' = "none"
    /\ train_pulled' = 0
    /\ val_pulled' = 0
    /\ val_stopped' = FALSE
    /\ futures_bound' = FALSE
    /\ futures' = {}
    /\ calls' = [inst \in Instances |-> <<>>]
    /\ acc' = [inst \in Instances |-> 0]
    /\ processed' = <<>>
    /\ UNCHANGED <<fe_list, train_len, val_given, val_len, length_data, fault,
                   queue, running, adapterVars, ctor, fx>>

InitModes ==
    /\ debug_mode = TRUE
    /\ fe_list \in 0..MaxExtractors
    /\ train_len \in 0..MaxTrain
    /\ val_given \in BOOLEAN
    /\ val_len \in (IF val_given THEN 0..MaxVal ELSE {Unknown})
    /\ length_data \in 0..MaxLength
    /\ fe_list * length_data <= MaxPoolLoad
    /\ ManagerStart
    /\ fault = NoFault
    /\ AdapterIdle
    /\ ctor = NoCtor
    /\ fx = NoFx

NextModes == Next \/ Rerun

SpecModes == InitModes /\ [][NextModes]_vars

\* ----------------------------------------------------- DatasetAdapter ---
\* A raw batch, as far as the adapter looks at it: whether it is a tuple or
\* list ("seq"), a mapping ("map") or something else, which of its elements
\* are a tensor, an ndarray or a PIL image, and how many of the registered
\* dataset extractors recognise it.
RawBatches ==
    {[kind |-> k, elems |-> e, matches |-> m] :
        k \in {"seq", "map"},
        e \in UNION {[1..n -> BOOLEAN] : n \in 0..MaxElems},
        m \in 0..MaxMatches}
    \cup {[kind |-> "other", elems |-> <<>>, matches |-> m] : m \in 0..MaxMatches}

Custom     == [kind |-> "custom", at |-> 0]
DatasetExt == [kind |-> "dataset", at |-> 0]
PathExt(i) == [kind |-> "path", at |-> i]

\* isinstance(data, (Tuple, List)) and len(data) == 2
IsPair(data) == data.kind = "seq" /\ Len(data.elems) = 2

\* isinstance(data, (Tuple, List, Mapping, Tuple, List))
IsContainer(data) == data.kind \in {"seq", "map"}

\* AutoExtractor.find_extractor: the extractor of the one detector that matches
FindExtractor(data) == data.matches = 1

\* get_tensor_extractor_options: the paths of the tensor-like leaves (0-based)
Options(data) == {i - 1 : i \in {n \in 1..Len(data.elems) : data.elems[n]}}

\* what the operator may answer to the question about this batch
Answers(data) == IF Options(data) = {} THEN {-1} ELSE Options(data)

\* the answers that matter: the operator is only asked when the slot is
\* empty and neither the position nor a detector settles the batch
Asked(idx, slot, data) ==
    IF \/ slot # None
       \/ IsPair(data) /\ data.elems[idx]
       \/ FindExtractor(data)
    THEN {-1} ELSE Answers(data)

Resolution(slot, ret, raised, pos, det, ask, wr) ==
    [slot |-> slot, ret |-> ret, raised |-> raised,
     pos |-> pos, det |-> det, ask |-> ask, wr |-> wr]

\* DataConfig.get_images_extractor / get_labels_extractor with a question:
\* the operator is asked and the answer is stored in the slot
AskUser(slot, data, ans) ==
    IF slot # None
    THEN Resolution(slot, slot, "none", 0, 0, 0, 0)
    ELSE IF Options(data) = {}
    THEN Resolution(slot, None, "ExtractionError", 0, 0, 0, 0)
    ELSE Resolution(PathExt(ans), PathExt(ans), "none", 0, 0, 1, 1)

\* the steps with the dataset detectors consulted before the position
Resolve_DetectorsFirst(idx, slot, data, ans) ==
    IF FindExtractor(data)
    THEN Resolution(DatasetExt, DatasetExt, "none", 0, 2, 0, 1)
    ELSE IF IsPair(data) /\ data.elems[idx]
    THEN Resolution(PathExt(idx - 1), PathExt(idx - 1), "none", 1, 1, 0, 1)
    ELSE IF IsContainer(data)
    THEN LET a == AskUser(slot, data, ans)
         IN  [a EXCEPT !.pos = 1, !.det = 1]
    ELSE Resolution(slot, None, "NotImplementedError", 1, 1, 0, 0)

\* the steps of _get_images_extractor / _get_labels_extractor after the
\* look at the slot; idx is the conventional position, 1 for data[0]
Resolve(idx, slot, data, ans) ==
    IF IsPair(data) /\ data.elems[idx]
    THEN Resolution(PathExt(idx - 1), PathExt(idx - 1), "none", 1, 0, 0, 1)
    ELSE IF FindExtractor(data)
    THEN Resolution(DatasetExt, DatasetExt, "none", 1, 2, 0, 1)
    ELSE IF IsContainer(data)
    THEN LET a == AskUser(slot, data, ans)
         IN  [a EXCEPT !.pos = 1, !.det = 1]
    ELSE Resolution(slot, None, "NotImplementedError", 1, 1, 0, 0)

GetImagesExtractor_NoMemo(slot, data, ans) == Resolve(1, None, data, ans)

\* _get_images_extractor with the look at the slot after the positional test
GetImagesExtractor_PositionalFirst(slot, data, ans) ==
    IF IsPair(data) /\ data.elems[1]
    THEN Resolution(PathExt(0), PathExt(0), "none", 1, 0, 0, 1)
    ELSE IF slot # None
    THEN Resolution(slot, slot, "none", 0, 0, 0, 0)
    ELSE Resolve(1, slot, data, ans)

\* DatasetAdapter._get_images_extractor
GetImagesExtractor(slot, data, ans) ==
    IF slot # None
    THEN Resolution(slot, slot, "none", 0, 0, 0, 0)
    ELSE Resolve(1, slot, data, ans)

GetLabelsExtractor_NoMemo(slot, data, ans) == Resolve(2, None, data, ans)

\* DatasetAdapter._get_labels_extractor
GetLabelsExtractor(slot, data, ans) ==
    IF slot # None
    THEN Resolution(slot, slot, "none", 0, 0, 0, 0)
    ELSE Resolve(2, slot, data, ans)

\* images_extractor(data): a path reaches into the batch, a caller's or a
\* dataset's function does what it does (ok)
Applies(ext, data, ok) ==
    IF ext.kind = "path"
    THEN IsContainer(data) /\ ext.at < Len(data.elems)
    ELSE ok

Logged(log, r) ==
    [pos |-> log.pos + r.pos, det |-> log.det + r.det,
     ask |-> log.ask + r.ask, wr |-> log.wr + r.wr]

\* DatasetAdapter.extract
Extract(data) ==
    /\ adapter_calls < MaxCalls
    /\ adapter_calls' = adapter_calls + 1
    /\ \E ai \in Asked(1, images_extractor, data), al \in Asked(2, labels_extractor, data),
          oki \in BOOLEAN, okl \in BOOLEAN :
         LET ri == GetImagesExtractor(images_extractor, data, ai)
             rl == GetLabelsExtractor(labels_extractor, data, al)
         IN  /\ images_extractor' = ri.slot
             /\ IF ri.raised # "none" \/ ~Applies(ri.ret, data, oki)
                THEN \* _extract_images raised: _extract_labels is not reached
                     /\ labels_extractor' = labels_extractor
                     /\ adapter_log' = [adapter_log EXCEPT
                                           !.images = Logged(@, ri)]
                     /\ adapter_ret' = [images |-> ri.ret, labels |-> None,
                                        stage |-> "images",
                                        outcome |-> IF ri.raised # "none"
                                                    THEN ri.raised ELSE "ApplyError"]
                ELSE /\ labels_extractor' = rl.slot
                     /\ adapter_log' = [adapter_log EXCEPT
                                           !.images = Logged(@, ri),
                                           !.labels = Logged(@, rl)]
                     /\ adapter_ret' = [images |-> ri.ret, labels |-> rl.ret,
                                        stage |-> "labels",
                                        outcome |-> IF rl.raised # "none" THEN rl.raised
                                                    ELSE IF Applies(rl.ret, data, okl)
                                                    THEN "ok" ELSE "ApplyError"]
    /\ UNCHANGED <<inputVars, managerVars, poolVars, extrVars, seq_acc, raw, ctor, fx>>

\* a manager that is not running, and the extractors the caller passed on
InitAdapter ==
    /\ debug_mode = TRUE /\ fe_list = 0 /\ train_len = 0 /\ val_given = FALSE
    /\ val_len = 0 /\ length_data = 0
    /\ ManagerStart
    /\ fault = NoFault
    /\ images_extractor \in {None, Custom}
    /\ labels_extractor \in {None, Custom}
    /\ adapter_log = NoLog
    /\ adapter_calls = 0
    /\ adapter_ret = NoReturn
    /\ raw = NoData
    /\ ctor = NoCtor
    /\ fx = NoFx

NextAdapter == \E data \in RawBatches : Extract(data)

SpecAdapter == InitAdapter /\ [][NextAdapter]_vars

\* One call of extract on a given raw batch, by a fresh adapter.
InitResolve ==
    /\ debug_mode = TRUE /\ fe_list = 0 /\ train_len = 0 /\ val_given = FALSE
    /\ val_len = 0 /\ length_data = 0
    /\ ManagerStart
    /\ fault = NoFault
    /\ images_extractor \in {None, Custom}
    /\ labels_extractor \in {None, Custom}
    /\ adapter_log = NoLog
    /\ adapter_calls = 0
    /\ adapter_ret = NoReturn
    /\ raw \in RawBatches
    /\ ctor = NoCtor
    /\ fx = NoFx

NextResolve == adapter_calls = 0 /\ Extract(raw)

SpecResolve == InitResolve /\ [][NextResolve]_vars


\* ------------------------------------------- DetectionAnalysisManager ---
\* The constructor, statement by statement. ctor.line is the statement to be
\* run next, ctor.created the objects made so far, ctor.class_names and
\* ctor.class_names_to_use the locals the constructor rebinds.
ClassNames == {"0", "1", "x"}

NameLists == UNION {[1..n -> ClassNames] : n \in 0..MaxNames}

CtorArgs ==
    [n_classes : {Nothing} \cup {Some(n) : n \in 0..MaxClasses},
     class_names : {Nothing} \cup {Some(l) : l \in NameLists},
     class_names_to_use : {Nothing} \cup {Some(l) : l \in NameLists},
     feature_extractors : BOOLEAN,      \* is not None
     config_path : BOOLEAN]             \* is not None

\* bool(x) of an optional int and of an optional list
TruthyInt(o) == o # Nothing /\ o[1] # 0
TruthyList(o) == o # Nothing /\ Len(o[1]) > 0

\* list(map(str, range(n)))
RangeNames(n) == [i \in 1..n |-> ToString(i - 1)]

Raise(e) == ctor' = [ctor EXCEPT !.line = "raised", !.error = e]

Create(obj, next) ==
    ctor' = [ctor EXCEPT !.created = @ \cup {obj}, !.line = next]

\* the first statement left out
CheckSources_Skipped ==
    /\ ctor.line = "sources"
    /\ ctor' = [ctor EXCEPT !.line = "data_config"]
    /\ UNCHANGED <<inputVars, managerVars, poolVars, extrVars, seq_acc, adapterVars, fx>>

\* if feature_extractors is not None and config_path is not None: raise
CheckSources ==
    /\ ctor.line = "sources"
    /\ IF ctor.args.feature_extractors /\ ctor.args.config_path
       THEN Raise("sources_conflict")
       ELSE ctor' = [ctor EXCEPT !.line = "data_config"]
    /\ UNCHANGED <<inputVars, managerVars, poolVars, extrVars, seq_acc, adapterVars, fx>>

\* data_config = DetectionDataConfig(...)
MakeDataConfig ==
    /\ ctor.line = "data_config"
    /\ Create("data_config", "classes")
    /\ UNCHANGED <<inputVars, managerVars, poolVars, extrVars, seq_acc, adapterVars, fx>>

\* the check of n_classes and class_names, and the rebinding of class_names
CheckClasses ==
    /\ ctor.line = "classes"
    /\ LET n == ctor.args.n_classes
           names == ctor.args.class_names
       IN  IF TruthyInt(n) /\ TruthyList(names)
           THEN Raise("classes_conflict")
           ELSE IF n = Nothing /\ names = Nothing
           THEN Raise("classes_missing")
           ELSE IF TruthyList(names)
           THEN ctor' = [ctor EXCEPT !.class_names = names, !.line = "classes_to_use"]
           ELSE IF n = Nothing
           THEN Raise("TypeError")      \* range(None)
           ELSE ctor' = [ctor EXCEPT !.class_names = Some(RangeNames(n[1])),
                                     !.line = "classes_to_use"]
    /\ UNCHANGED <<inputVars, managerVars, poolVars, extrVars, seq_acc, adapterVars, fx>>

\* class_names_to_use taken as it comes
CheckClassesToUse_Unchecked ==
    /\ ctor.line = "classes_to_use"
    /\ LET use == ctor.args.class_names_to_use
       IN  ctor' = [ctor EXCEPT
                      !.class_names_to_use = IF TruthyList(use) THEN use
                                             ELSE ctor.class_names,
                      !.line = "extractors"]
    /\ UNCHANGED <<inputVars, managerVars, poolVars, extrVars, seq_acc, adapterVars, fx>>

\* the check of class_names_to_use and its default
CheckClassesToUse ==
    /\ ctor.line = "classes_to_use"
    /\ LET use == ctor.args.class_names_to_use
       IN  IF TruthyList(use) /\ Range(use[1]) \ Range(ctor.class_names[1]) # {}
           THEN Raise("classes_to_use_invalid")
           ELSE ctor' = [ctor EXCEPT
                           !.class_names_to_use = IF TruthyList(use) THEN use
                                                  ELSE ctor.class_names,
                           !.line = "extractors"]
    /\ UNCHANGED <<inputVars, managerVars, poolVars, extrVars, seq_acc, adapterVars, fx>>

\* grouped_feature_extractors = get_grouped_feature_extractors(...)
GroupExtractors ==
    /\ ctor.line = "extractors"
    /\ Create("grouped_feature_extractors", "batch_processor")
    /\ UNCHANGED <<inputVars, managerVars, poolVars, extrVars, seq_acc, adapterVars, fx>>

\* batch_processor = DetectionBatchProcessor(...)
MakeBatchProcessor ==
    /\ ctor.line = "batch_processor"
    /\ Create("batch_processor", "super")
    /\ UNCHANGED <<inputVars, managerVars, poolVars, extrVars, seq_acc, adapterVars, fx>>

\* super().__init__(...): the manager that holds train_data and val_data
SuperInit ==
    /\ ctor.line = "super"
    /\ Create("manager", "done")
    /\ UNCHANGED <<inputVars, managerVars, poolVars, extrVars, seq_acc, adapterVars, fx>>

InitCtor ==
    /\ debug_mode = TRUE /\ fe_list = 0 /\ train_len = 0 /\ val_given = FALSE
    /\ val_len = 0 /\ length_data = 0
    /\ ManagerStart
    /\ fault = NoFault
    /\ AdapterIdle
    /\ \E a \in CtorArgs : ctor = [NoCtor EXCEPT !.args = a, !.line = "sources"]
    /\ fx = NoFx

NextCtor ==
    \/ CheckSources
    \/ MakeDataConfig
    \/ CheckClasses
    \/ CheckClassesToUse
    \/ GroupExtractors
    \/ MakeBatchProcessor
    \/ SuperInit

SpecCtor == InitCtor /\ [][NextCtor]_vars

\* -------------------------------------------------- feature extractors ---
\* One feature extractor, called from outside: fx.kind is its class,
\* fx.init its attributes after construction, fx.st its attributes now,
\* fx.seen the batches it was updated with, in the order of the calls,
\* fx.op the last call, fx.out what the last aggregate returned and
\* fx.failed whether a call has raised.
SplitNames == {"train", "val"}

\* A dict, with the order of insertion Python keeps: a sequence of
\* <<key, value>> pairs with distinct keys.
Keys(d) == [i \in 1..Len(d) |-> d[i][1]]

Vals(d) == [i \in 1..Len(d) |-> d[i][2]]

Has(d, k) == \E i \in 1..Len(d) : d[i][1] = k

Get(d, k) == d[CHOOSE i \in 1..Len(d) : d[i][1] = k][2]

\* d[k] = v
Put(d, k, v) ==
    IF Has(d, k)
    THEN [i \in 1..Len(d) |-> IF d[i][1] = k THEN <<k, v>> ELSE d[i]]
    ELSE Append(d, <<k, v>>)

\* A number a plot can hold: a fraction <<n, d>> in lowest terms, <<0, 0>>
\* for nan (0 / 0).
RECURSIVE Gcd(_, _)
Gcd(a, b) == IF b = 0 THEN a ELSE Gcd(b, a % b)

Frac(n, d) ==
    IF d = 0 THEN <<IF n = 0 THEN 0 ELSE 1, 0>>
    ELSE LET g == Gcd(n, d) IN IF g = 0 THEN <<0, 1>> ELSE <<n \div g, d \div g>>

Whole(n) == <<n, 1>>

\* a + b and a / b as numpy computes them on floats: nan stays nan, a
\* division by zero gives nan or inf and raises nothing
FracAdd(a, b) ==
    IF a[2] = 0 \/ b[2] = 0 THEN <<0, 0>>
    ELSE Frac(a[1] * b[2] + b[1] * a[2], a[2] * b[2])

FracDiv(a, b) ==
    IF a[2] = 0 \/ b[2] = 0 THEN <<0, 0>>
    ELSE Frac(a[1] * b[2], a[2] * b[1])

\* sum(values), added up by halves
RECURSIVE FracSum(_)
FracSum(values) ==
    IF values = <<>> THEN Whole(0)
    ELSE IF Len(values) = 1 THEN values[1]
    ELSE LET half == Len(values) \div 2
         IN  FracAdd(FracSum(SubSeq(values, 1, half)),
                     FracSum(SubSeq(values, half + 1, Len(values))))

\* what a call returns: the extractor's attributes after it, the output of
\* an aggregate, and the exception it raised
Returned(st, out, raised) == [st |-> st, out |-> out, raised |-> raised]

NoOut == [bins |-> <<>>, values |-> <<>>, rows |-> <<>>, json |-> {}]

Histo(bins, values) == [bins |-> bins, values |-> values, rows |-> <<>>, json |-> {}]

\* ImagesResolutions: _hist = {"train": dict(), "val": dict()}
Resolutions == {"(1, 1)", "(2, 1)"}

ImagesResolutions_batches ==
    {<<r>> : r \in Resolutions} \cup {<<"(1, 1)", "(2, 1)">>}

ImagesResolutions_init == [_hist |-> [s \in SplitNames |-> <<>>]]

\* for image in data.images: count its resolution in self._hist[data.split]
RECURSIVE CountKeys(_, _)
CountKeys(d, keys) ==
    IF keys = <<>> THEN d
    ELSE LET res == Head(keys)
         IN  CountKeys(IF Has(d, res) THEN Put(d, res, Get(d, res) + 1)
                       ELSE Put(d, res, 1),
                       Tail(keys))

ImagesResolutions_update(st, data) ==
    Returned([st EXCEPT !._hist[data.split] = CountKeys(@, data.images)],
             NoOut, "none")

\* the keys of `from` that `d` lacks, put into `d` with a zero
RECURSIVE FillKeys(_, _)
FillKeys(d, from) ==
    IF from = <<>> THEN d
    ELSE FillKeys(IF Has(d, Head(from)[1]) THEN d ELSE Put(d, Head(from)[1], 0),
                  Tail(from))

\* FeatureExtractorAbstract.merge_dict_splits: every key of either split is
\* put, with a zero, into the split that lacks it, in the dict it is given
merge_dict_splits(hist) ==
    [train |-> FillKeys(hist.train, hist.val),
     val |-> FillKeys(hist.val, hist.train)]

\* aggregate that leaves merge_dict_splits out
ImagesResolutions_aggregate_unmerged(st, split) ==
    Returned(st, Histo(Keys(st._hist[split]),
                       [i \in 1..Len(st._hist[split]) |-> Whole(st._hist[split][i][2])]),
             "none")

ImagesResolutions_aggregate(st, split) ==
    LET hist == merge_dict_splits(st._hist)
    IN  Returned([st EXCEPT !._hist = hist],
                 Histo(Keys(hist[split]),
                       [i \in 1..Len(hist[split]) |-> Whole(hist[split][i][2])]),
                 "none")

\* GetClassDistribution(n_classes = 2, ignore_labels = []): the keys are the
\* class ids, written as Python prints them
n_classes == 2

ClassKeys(n) == [i \in 1..n |-> ToString(i - 1)]

\* dict.fromkeys(keys, 0)
FromKeys(keys, v) == [i \in 1..Len(keys) |-> <<keys[i], v>>]

\* FeatureExtractorAbstract.id_to_name, the table of class names
id_to_name == <<<<"0", "cat">>, <<"1", "dog">>>>

\* class_id_to_name: the dict with every key the table knows replaced by
\* its name
class_id_to_name(table, hist) ==
    [i \in 1..Len(hist) |->
        <<IF Has(table, hist[i][1]) THEN Get(table, hist[i][1]) ELSE hist[i][1],
          hist[i][2]>>]

\* FeatureExtractorAbstract.normalize: the values divided by the total; a
\* total of zero divides by one
normalize(values, total) ==
    [i \in 1..Len(values) |-> Frac(values[i], IF total = 0 THEN 1 ELSE total)]

\* a batch of contours: for each image, for each class with contours, the
\* class id and the number of contours
Contours(class_id, n) == [class_id |-> class_id, n |-> n]

GetClassDistribution_batches ==
    {<< <<Contours("0", 1)>> >>,
     << <<Contours("1", 2)>> >>,
     << <<Contours("0", 1), Contours("1", 1)>>, <<Contours("1", 0)>> >>}

GetClassDistribution_init ==
    [_hist |-> [s \in SplitNames |-> FromKeys(ClassKeys(n_classes), 0)],
     _total_objects |-> [s \in SplitNames |-> 0]]

RECURSIVE Flatten(_)
Flatten(seqs) == IF seqs = <<>> THEN <<>> ELSE Head(seqs) \o Flatten(Tail(seqs))

\* the body of the two loops of update, for the class lists that are left;
\* a class id that is no key raises KeyError and leaves what was counted
RECURSIVE CountContours(_, _)
CountContours(r, lists) ==
    IF lists = <<>> \/ r.raised # "none" THEN r
    ELSE LET cls_contours == Head(lists)
         IN  IF cls_contours.n = 0
             THEN CountContours(r, Tail(lists))
             ELSE IF ~Has(r.st.hist, cls_contours.class_id)
             THEN [r EXCEPT !.raised = "KeyError"]
             ELSE CountContours(
                    [r EXCEPT !.st.hist = Put(@, cls_contours.class_id,
                                              Get(@, cls_contours.class_id) + cls_contours.n),
                              !.st.total = @ + cls_contours.n],
                    Tail(lists))

\* update that leaves self._total_objects alone
GetClassDistribution_update_untotalled(st, data) ==
    LET r == CountContours(
               Returned([hist |-> st._hist[data.split],
                         total |-> st._total_objects[data.split]], NoOut, "none"),
               Flatten(data.contours))
    IN  Returned([st EXCEPT !._hist[data.split] = r.st.hist], NoOut, r.raised)

GetClassDistribution_update(st, data) ==
    LET r == CountContours(
               Returned([hist |-> st._hist[data.split],
                         total |-> st._total_objects[data.split]], NoOut, "none"),
               Flatten(data.contours))
    IN  Returned([st EXCEPT !._hist[data.split] = r.st.hist,
                            !._total_objects[data.split] = r.st.total],
                 NoOut, r.raised)

GetClassDistribution_aggregate(st, split) ==
    LET hist == class_id_to_name(id_to_name, st._hist[split])
    IN  Returned([st EXCEPT !._hist[split] = hist],
                 Histo(Keys(hist), normalize(Vals(hist), st._total_objects[split])),
                 "none")

\* SegmentationGetClassDistribution(train_set, {"number_of_classes": 2}):
\* one instance for one split; _hist is a list of counts until process
\* makes it a numpy array of floats
number_of_classes == 2

\* create_torch_loaders.label_to_class, read with indexes from 0
label_to_class == <<"cat", "dog">>

\* the batches of the first extractors: for each image, for each class, the
\* class (from 1) and the number of its contours
Segmentation_batches ==
    {<< <<Contours(1, 1)>> >>,
     << <<Contours(2, 2)>> >>,
     << <<Contours(1, 1), Contours(2, 1)>> >>,
     << <<Contours(1, 1), Contours(2, 0)>> >>}

SegmentationGetClassDistribution_init ==
    [_hist |-> [i \in 1..number_of_classes |-> Whole(0)], type |-> "list"]

\* a Python index into a sequence of length n, negative ones from the end;
\* 0 if it is out of range
PyIndex(i, n) ==
    IF i >= 0 /\ i < n THEN i + 1
    ELSE IF i < 0 /\ i >= 0 - n THEN n + i + 1
    ELSE 0

\* the loops of execute: cls_contours[0] of an empty list raises IndexError
RECURSIVE AddContours(_, _)
AddContours(r, lists) ==
    IF lists = <<>> \/ r.raised # "none" THEN r
    ELSE LET cls_contours == Head(lists)
             at == PyIndex(cls_contours.class_id - 1, Len(r.st._hist))
         IN  IF cls_contours.n = 0 \/ at = 0
             THEN [r EXCEPT !.raised = "IndexError"]
             ELSE AddContours(
                    [r EXCEPT !.st._hist[at] = FracAdd(@, Whole(cls_contours.n))],
                    Tail(lists))

SegmentationGetClassDistribution_execute(st, data) ==
    AddContours(Returned(st, NoOut, "none"), Flatten(data.contours))

\* list.index(value): the first place that holds it
FirstIndex(hist, v) ==
    CHOOSE i \in 1..Len(hist) : hist[i] = v /\ \A before \in 1..(i - 1) : hist[before] # v

\* process: an array has no method index; the labels are those of the
\* first class with the same count; self._hist becomes the normalised array
SegmentationGetClassDistribution_process(st) ==
    IF st.type = "ndarray" /\ Len(st._hist) > 0
    THEN Returned(st, NoOut, "AttributeError")
    ELSE LET labels == [i \in 1..Len(st._hist) |->
                           label_to_class[FirstIndex(st._hist, st._hist[i])]]
             total == FracSum(st._hist)
             hist == [i \in 1..Len(st._hist) |-> FracDiv(st._hist[i], total)]
         IN  Returned([_hist |-> hist, type |-> "ndarray"], Histo(labels, hist), "none")

\* SegmentationCountNumObjects(train_set): self._hist = [0] * 51, bin k
\* (from 0) at place k + 1
HistBins == 51

SegmentationCountNumObjects_batches ==
    {<< <<>> >>,
     << <<Contours(1, 1)>> >>,
     << <<Contours(1, 1), Contours(2, 1)>> >>,
     << <<Contours(1, 51)>> >>}

SegmentationCountNumObjects_init == [_hist |-> [i \in 1..HistBins |-> 0]]

RECURSIVE SumLens(_)
SumLens(onehot_contours) ==
    IF onehot_contours = <<>> THEN 0
    ELSE Head(onehot_contours).n + SumLens(Tail(onehot_contours))

\* the loop of execute over the images that are left; a count that is no
\* index of the list raises IndexError
RECURSIVE CountImages(_, _)
CountImages(r, images) ==
    IF images = <<>> \/ r.raised # "none" THEN r
    ELSE LET at == PyIndex(SumLens(Head(images)), Len(r.st._hist))
         IN  IF at = 0 THEN [r EXCEPT !.raised = "IndexError"]
             ELSE CountImages([r EXCEPT !.st._hist[at] = @ + 1], Tail(images))

SegmentationCountNumObjects_execute(st, data) ==
    CountImages(Returned(st, NoOut, "none"), data.contours)

\* process: i runs over 0, 1, ... and tests self._hist[-i], which for i = 0
\* is bin 0; the first hit sets idx = len(self._hist) - i + 1. The cut
\* list is divided by its sum, and self._hist is left as it was.
SegmentationCountNumObjects_process(st) ==
    LET len == Len(st._hist)
        hits == {i \in 0..(len - 1) : st._hist[PyIndex(0 - i, len)] > 0}
        idx == IF hits = {} THEN len
               ELSE len - (CHOOSE i \in hits : \A other \in hits : i <= other) + 1
        hist == SubSeq(st._hist, 1, IF idx > len THEN len ELSE idx)
        total == FracSum([i \in 1..Len(hist) |-> Whole(hist[i])])
    IN  Returned(st,
                 Histo([i \in 1..Len(hist) |-> i - 1],
                       [i \in 1..Len(hist) |-> FracDiv(Whole(hist[i]), total)]),
                 "none")

\* ClassificationClassDistributionVsArea: self.data is a list of rows
class_names == <<"cat", "dog">>

ClassificationSamples ==
    {[split |-> s, class_id |-> c[1], shape |-> c[2]] :
        s \in SplitNames, c \in {<<0, <<2, 2>>>>, <<1, <<2, 4>>>>}}

ClassificationClassDistributionVsArea_init == [data |-> <<>>]

ClassificationClassDistributionVsArea_update(st, sample) ==
    Returned([data |-> Append(st.data,
                              [split |-> sample.split,
                               class_id |-> sample.class_id,
                               class_name |-> class_names[sample.class_id + 1],
                               image_size |-> (sample.shape[1] + sample.shape[2]) \div 2])],
             NoOut, "none")

\* aggregate: a DataFrame of no rows has no columns, so df["class_name"]
\* raises KeyError; else the Feature holds the rows as they were appended
\* and, as json, the count of each (split, class_name, image_size)
ClassificationClassDistributionVsArea_aggregate(st) ==
    IF st.data = <<>> THEN Returned(st, NoOut, "KeyError")
    ELSE LET group(row) == <<row.split, row.class_name, row.image_size>>
             groups == {group(st.data[i]) : i \in 1..Len(st.data)}
         IN  Returned(st,
                      [bins |-> <<>>, values |-> <<>>, rows |-> st.data,
                       json |-> {<<g, Cardinality({i \in 1..Len(st.data) :
                                                      group(st.data[i]) = g})>> :
                                    g \in groups}],
                      "none")

\* AppearancesInImages(num_classes = 2, ignore_labels): the keys are the
\* numbers below num_classes + len(ignore_labels) that are not ignored
num_classes == 2

IgnoreLabels == {<<>>, <<0>>}

Ids(n, ignore_labels) ==
    SelectSeq([i \in 1..(n + Len(ignore_labels)) |-> i - 1],
              LAMBDA id : \A at \in 1..Len(ignore_labels) : ignore_labels[at] # id)

AppearancesInImages_init(ignore_labels) ==
    LET ids == Ids(num_classes, ignore_labels)
        keys == [i \in 1..Len(ids) |-> ToString(ids[i])]
    IN  [_hist |-> [s \in SplitNames |-> FromKeys(keys, 0)],
         _number_of_images |-> [s \in SplitNames |-> 0]]

\* a batch of labels: for each label, for each channel, its largest value
AppearancesInImages_batches ==
    {<< <<0, 1>> >>,
     << <<1, 0>> >>,
     << <<0, 1>>, <<1, 1>> >>,
     << <<0, 0>> >>}

\* the two loops of update over the channels that are left, each with its
\* index j; a j that is no key raises KeyError
RECURSIVE CountChannels(_, _)
CountChannels(r, channels) ==
    IF channels = <<>> \/ r.raised # "none" THEN r
    ELSE LET key == ToString(Head(channels)[1])
         IN  IF Head(channels)[2] <= 0
             THEN CountChannels(r, Tail(channels))
             ELSE IF ~Has(r.st, key)
             THEN [r EXCEPT !.raised = "KeyError"]
             ELSE CountChannels([r EXCEPT !.st = Put(@, key, Get(@, key) + 1)],
                                Tail(channels))

\* enumerate(label) for every label of the batch
Channels(labels) ==
    Flatten([i \in 1..Len(labels) |->
                [c \in 1..Len(labels[i]) |-> <<c - 1, labels[i][c]>>]])

AppearancesInImages_update(st, data) ==
    LET r == CountChannels(Returned(st._hist[data.split], NoOut, "none"),
                           Channels(data.labels))
    IN  Returned([st EXCEPT !._number_of_images[data.split] = @ + Len(data.labels),
                            !._hist[data.split] = r.st],
                 NoOut, r.raised)

AppearancesInImages_aggregate(st, split) ==
    LET hist == class_id_to_name(id_to_name, st._hist[split])
    IN  Returned([st EXCEPT !._hist[split] = hist],
                 Histo(Keys(hist), normalize(Vals(hist), st._number_of_images[split])),
                 "none")

FxKinds == {"ImagesResolutions", "GetClassDistribution",
            "SegmentationGetClassDistribution", "SegmentationCountNumObjects",
            "ClassificationClassDistributionVsArea", "AppearancesInImages"}

\* the extractors that keep one histogram per split
SplitKeyed == {"ImagesResolutions", "GetClassDistribution", "AppearancesInImages"}

\* the splits an extractor is asked to aggregate: the others are built for
\* one split (here train_set = True) or aggregate all they have
FxSplits(kind) == IF kind \in SplitKeyed THEN SplitNames ELSE {"train"}

\* the states an extractor of this class can be constructed in
FxInit(kind) ==
    CASE kind = "ImagesResolutions" -> {ImagesResolutions_init}
      [] kind = "GetClassDistribution" -> {GetClassDistribution_init}
      [] kind = "SegmentationGetClassDistribution" -> {SegmentationGetClassDistribution_init}
      [] kind = "SegmentationCountNumObjects" -> {SegmentationCountNumObjects_init}
      [] kind = "ClassificationClassDistributionVsArea" ->
            {ClassificationClassDistributionVsArea_init}
      [] kind = "AppearancesInImages" ->
            {AppearancesInImages_init(ignore_labels) : ignore_labels \in IgnoreLabels}

\* the batches an extractor of this class is updated with
FxBatches(kind) ==
    CASE kind = "ImagesResolutions" ->
            {[split |-> s, images |-> b] : s \in SplitNames, b \in ImagesResolutions_batches}
      [] kind = "GetClassDistribution" ->
            {[split |-> s, contours |-> b] : s \in SplitNames, b \in GetClassDistribution_batches}
      [] kind = "SegmentationGetClassDistribution" ->
            {[split |-> "train", contours |-> b] : b \in Segmentation_batches}
      [] kind = "SegmentationCountNumObjects" ->
            {[split |-> "train", contours |-> b] : b \in SegmentationCountNumObjects_batches}
      [] kind = "AppearancesInImages" ->
            {[split |-> s, labels |-> b] : s \in SplitNames, b \in AppearancesInImages_batches}
      [] kind = "ClassificationClassDistributionVsArea" -> ClassificationSamples

FxUpdate(kind, st, data) ==
    CASE kind = "ImagesResolutions" -> ImagesResolutions_update(st, data)
      [] kind = "GetClassDistribution" -> GetClassDistribution_update(st, data)
      [] kind = "SegmentationGetClassDistribution" ->
            SegmentationGetClassDistribution_execute(st, data)
      [] kind = "SegmentationCountNumObjects" ->
            SegmentationCountNumObjects_execute(st, data)
      [] kind = "ClassificationClassDistributionVsArea" ->
            ClassificationClassDistributionVsArea_update(st, data)
      [] kind = "AppearancesInImages" -> AppearancesInImages_update(st, data)

FxAggregate(kind, st, split) ==
    CASE kind = "ImagesResolutions" -> ImagesResolutions_aggregate(st, split)
      [] kind = "GetClassDistribution" -> GetClassDistribution_aggregate(st, split)
      [] kind = "SegmentationGetClassDistribution" ->
            SegmentationGetClassDistribution_process(st)
      [] kind = "SegmentationCountNumObjects" ->
            SegmentationCountNumObjects_process(st)
      [] kind = "ClassificationClassDistributionVsArea" ->
            ClassificationClassDistributionVsArea_aggregate(st)
      [] kind = "AppearancesInImages" -> AppearancesInImages_aggregate(st, split)

\* extractor.update(data)
Update(data) ==
    /\ fx.kind # "none"
    /\ fx.updates < MaxUpdates
    /\ LET r == FxUpdate(fx.kind, fx.st, data)
       IN  fx' = [fx EXCEPT !.st = r.st,
                            !.op = [name |-> "update", split |-> data.split,
                                    raised |-> r.raised],
                            !.seen = Append(@, data),
                            !.failed = @ \/ r.raised # "none",
                            !.updates = @ + 1]
    /\ UNCHANGED <<inputVars, managerVars, poolVars, extrVars, seq_acc,
                   adapterVars, ctor>>

\* extractor.aggregate(split)
Aggregate(split) ==
    /\ fx.kind # "none"
    /\ fx.aggregates < MaxAggregates
    /\ split \in FxSplits(fx.kind)
    /\ LET r == FxAggregate(fx.kind, fx.st, split)
       IN  fx' = [fx EXCEPT !.st = r.st,
                            !.op = [name |-> "aggregate", split |-> split,
                                    raised |-> r.raised],
                            !.out = r.out,
                            !.failed = @ \/ r.raised # "none",
                            !.aggregates = @ + 1]
    /\ UNCHANGED <<inputVars, managerVars, poolVars, extrVars, seq_acc,
                   adapterVars, ctor>>

InitExtractor ==
    /\ debug_mode = TRUE /\ fe_list = 0 /\ train_len = 0 /\ val_given = FALSE
    /\ val_len = 0 /\ length_data = 0
    /\ ManagerStart
    /\ fault = NoFault
    /\ AdapterIdle
    /\ ctor = NoCtor
    /\ \E kind \in FxKinds : \E st \in FxInit(kind) :
         fx = [kind |-> kind, init |-> st, st |-> st,
               op |-> [name |-> "none", split |-> "train", raised |-> "none"],
               seen |-> <<>>,
               out |-> NoOut, failed |-> FALSE, updates |-> 0, aggregates |-> 0]

NextExtractor ==
    \/ \E data \in FxBatches(fx.kind) : Update(data)
    \/ \E split \in SplitNames : Aggregate(split)

SpecExtractor == InitExtractor /\ [][NextExtractor]_vars

\* ------------------------------------------------------------- claims ---
\* number of execute calls extractor inst received with batch k
Count(inst, k) == Cardinality({p \in 1..Len(calls[inst]) : calls[inst][p] = k})

Built == Range(train_extractors) \cup Range(val_extractors)

Pulled(inst) == IF inst[1] = "train" THEN train_pulled ELSE val_pulled

\* C1: every extractor of a split receives exactly one execute call for
\* every batch pulled from that split's iterator: never more than one, and
\* one once the RUN loop has ended, whatever the mode and the number of
\* extractors.
C1_ExactlyOncePerBatch ==
    \A inst \in Built : \A k \in 1..Pulled(inst) :
        /\ Count(inst, k) <= 1
        /\ phase \in {"AGGREGATE", "CLOSE", "DONE"} => Count(inst, k) = 1

\* C2: an extractor's execute raising on a batch does not abort the run:
\* the run never fails because of it.
C2_UpdateFailureContained ==
    ~(phase = "FAILED" /\ err = "update")

\* C3: once an extractor's execute has raised on a batch, the extractor
\* receives no call on a later batch, and when the run is done its process
\* has been called.
C3_SoftDisable ==
    \A inst \in Built :
        /\ \A p, q \in 1..Len(calls[inst]) :
              (p < q /\ Raises(inst, calls[inst][p])) => calls[inst][q] <= calls[inst][p]
        /\ (phase = "DONE" /\ \E p \in 1..Len(calls[inst]) : Raises(inst, calls[inst][p]))
              => inst \in Range(processed)

\* C4: StopIteration from the val iterator does not fail the run: the step
\* that meets it leaves the run in RUN without an error and sets train_only;
\* from then on no val batch is pulled and train_only stays set, while the
\* loop goes on pulling train batches up to its bound before aggregation,
\* and the run is never blocked in RUN.
C4_ValExhaustionNonFatal ==
    /\ []((val_stopped /\ phase = "RUN") => ENABLED Next)
    /\ [][ /\ (~val_stopped /\ val_stopped')
               => (phase' = "RUN" /\ err' = "none" /\ train_only' /\ pc' = "wait")
           /\ val_stopped
               => /\ val_stopped' /\ train_only'
                  /\ val_pulled' = val_pulled
                  /\ batch_data'[1] # "val" \/ batch_data' = batch_data
                  /\ (phase = "RUN" /\ phase' = "AGGREGATE")
                        => train_batch >= length_data
         ]_vars

\* C4 witness: val was exhausted while train went on, a later iteration
\* pulled a train batch alone, and the run reached aggregation.
C4_Witness ==
    /\ val_given /\ val_stopped
    /\ train_pulled >= val_pulled + 2
    /\ phase = "AGGREGATE"

\* C5: StopIteration from the train iterator ends the RUN loop without an
\* error: no run fails with it.
C5_TrainExhaustionNoError ==
    ~(phase = "FAILED" /\ err = "StopIteration")

\* C6: when post_process has returned, every val extractor that received a
\* val batch has been processed, also when val was exhausted during RUN.
C6_ValStateAggregated ==
    phase \in {"CLOSE", "DONE"} =>
        \A inst \in Range(val_extractors) :
            calls[inst] # <<>> => inst \in Range(processed)

\* C7: the run on the pool leaves every extractor with the accumulated
\* state the sequential run over the same input left it with.
C7_ModesAgree ==
    (seq_acc # NoResult /\ phase = "DONE" /\ Live = {}) => acc = seq_acc

\* C8: when execute is about to pull the next train batch, every task
\* submitted to the pool has completed.
C8_BatchBarrier ==
    (phase = "RUN" /\ pc = "loop") => Live = {}

\* C9: the execute calls of one extractor instance that are running at the
\* same time all belong to one batch.
C9_NoSelfOverlapAcrossBatches ==
    \A r1, r2 \in running :
        r1.task.inst = r2.task.inst => r1.task.batch = r2.task.batch

AdapterTasks == {"images", "labels"}

Slot(task) == IF task = "images" THEN images_extractor ELSE labels_extractor

\* C10: once the images (labels) slot of data_config holds an extractor,
\* a later extract call leaves the slot as it is, evaluates neither the
\* positional heuristic nor the dataset detectors nor the question for that
\* task, and gets the stored extractor; each slot is written at most once.
C10_ResolutionMemoized ==
    /\ [][ \A task \in AdapterTasks :
             Slot(task) # None =>
                /\ Slot(task)' = Slot(task)
                /\ adapter_log'[task] = adapter_log[task]
                /\ (task = "images" /\ adapter_calls' # adapter_calls)
                      => adapter_ret'.images = images_extractor
                /\ (task = "labels" /\ adapter_calls' # adapter_calls
                                    /\ adapter_ret'.stage = "labels")
                      => adapter_ret'.labels = labels_extractor
         ]_vars
    /\ [](\A task \in AdapterTasks : adapter_log[task].wr <= 1)

\* C10 witness: both slots were resolved by a heuristic in one call and
\* two more calls went by without another evaluation.
C10_Witness ==
    /\ adapter_calls = 3
    /\ images_extractor.kind = "path" /\ labels_extractor.kind = "dataset"
    /\ \A task \in AdapterTasks :
          /\ adapter_log[task].wr = 1 /\ adapter_log[task].ask = 0
          /\ adapter_log[task].pos = 1
    /\ adapter_ret.outcome = "ok"


\* C11: the operator is asked at most one question per task in a run.
C11_OneQuestionPerTask ==
    \A task \in AdapterTasks : adapter_log[task].ask <= 1

\* C11 witness: both tasks were settled by a question on the first batch
\* and two more batches went by without another question or evaluation.
C11_Witness ==
    /\ adapter_calls = 3
    /\ \A task \in AdapterTasks :
          /\ adapter_log[task].ask = 1 /\ adapter_log[task].pos = 1
          /\ Slot(task).kind = "path"

\* C12: an extractor supplied by the caller stays in its slot, and for its
\* task the positional heuristic, the dataset detectors and the question
\* are never evaluated and the slot is never written.
C12_ExplicitExtractorBypass ==
    /\ [](\A task \in AdapterTasks :
             Slot(task) = Custom => adapter_log[task] = NoLog[task])
    /\ [][\A task \in AdapterTasks : Slot(task) = Custom => Slot(task)' = Custom]_vars

\* C12 witness: a caller's images extractor went through three calls, one
\* of them on a pair whose labels were resolved by position.
C12_Witness ==
    /\ adapter_calls = 3
    /\ images_extractor = Custom
    /\ labels_extractor = PathExt(1)
    /\ adapter_ret.outcome = "ok"


\* the conventional position of a task's element in a pair
Index(task) == IF task = "images" THEN 1 ELSE 2

\* the task's extractor is looked for in this step: its slot is empty and,
\* for the labels, the images were extracted
Resolving(task) ==
    /\ adapter_calls' = adapter_calls + 1
    /\ Slot(task) = None
    /\ task = "labels" => adapter_ret'.stage = "labels"

\* C13: with an empty slot, a pair with a tensor-like element at the task's
\* position is settled by position, without a detector or a question;
\* otherwise a batch one detector recognises is settled by that detector,
\* without a question; only otherwise is the operator asked.
C13_ResolutionPrecedence ==
    [][\A task \in AdapterTasks :
          Resolving(task) =>
             LET lg == adapter_log'[task]
             IN  IF IsPair(raw) /\ raw.elems[Index(task)]
                 THEN /\ Slot(task)' = PathExt(Index(task) - 1)
                      /\ lg.det = 0 /\ lg.ask = 0
                 ELSE IF FindExtractor(raw)
                 THEN /\ Slot(task)' = DatasetExt
                      /\ lg.pos = 1 /\ lg.ask = 0
                 ELSE /\ lg.pos = 1 /\ lg.det >= 1
                      /\ Slot(task)'.kind \in {"None", "path"}
                      /\ lg.ask = 1 <=> Slot(task)'.kind = "path"
                      /\ lg.ask = 1 <=> IsContainer(raw) /\ Options(raw) # {}]_vars

\* C13 witness: on a pair that a detector recognises as well, the images
\* went by position and the labels, not tensor-like, by the detector.
C13_Witness ==
    /\ adapter_calls = 1
    /\ IsPair(raw) /\ raw.elems[1] /\ ~raw.elems[2] /\ FindExtractor(raw)
    /\ images_extractor = PathExt(0)
    /\ labels_extractor = DatasetExt
    /\ adapter_log.images.det = 0
    /\ adapter_log.labels.pos = 1

\* C14: with both slots empty, no positional or detector match and a raw
\* batch that is no tuple, list or mapping, the call fails with an
\* ExtractionError and both slots stay empty.
C14_UnsupportedBatchFails ==
    [][(/\ adapter_calls' = adapter_calls + 1
        /\ images_extractor = None /\ labels_extractor = None
        /\ ~IsContainer(raw) /\ ~FindExtractor(raw))
       => /\ adapter_ret'.outcome = "ExtractionError"
          /\ images_extractor' = None /\ labels_extractor' = None]_vars


\* the order of the calls in run()
PhaseOrder ==
    {<<"BUILD", "VALIDATE">>, <<"VALIDATE", "RUN">>, <<"RUN", "AGGREGATE">>,
     <<"AGGREGATE", "CLOSE">>, <<"CLOSE", "DONE">>}

\* no batch was pulled and no extractor was updated or aggregated
Untouched ==
    /\ train_pulled = 0 /\ val_pulled = 0
    /\ \A inst \in Instances : calls[inst] = <<>>
    /\ queue = <<>> /\ running = {}
    /\ processed = <<>>

\* C15: a run goes from build to validation, the batch loop, aggregation
\* and the end in this order; nothing is pulled, updated or aggregated
\* before build and validation are through or after one of them raised;
\* nothing is aggregated before the batch loop has ended.
C15_PhaseOrder ==
    /\ [][phase' # phase => \/ <<phase, phase'>> \in PhaseOrder
                            \/ phase # "DONE" /\ phase' = "FAILED"]_vars
    /\ []((phase \in {"BUILD", "VALIDATE"} \/ err \in {"build", "validate"})
            => Untouched)
    /\ [](processed # <<>> =>
            /\ phase \in {"AGGREGATE", "CLOSE", "DONE", "FAILED"}
            /\ phase = "FAILED" => err = "process"
            /\ train_batch = length_data)

\* C15 witness: a run with two features and a validation split went
\* through two batches and every aggregation to its end.
C15_Witness ==
    /\ phase = "DONE"
    /\ train_pulled = 2 /\ val_pulled = 2
    /\ Len(processed) = 4


Min(a, b) == IF a <= b THEN a ELSE b

\* C16: the train batches pulled never exceed the smaller of the loop
\* bound and what the train iterator holds, and a batch loop that ends
\* without an error has pulled exactly that many, in either mode.
C16_LoopBound ==
    /\ train_pulled <= Min(length_data, train_len)
    /\ phase \in {"AGGREGATE", "CLOSE", "DONE"}
          => train_pulled = Min(length_data, train_len)


\* C17: once build has returned, each list holds one instance per
\* configured feature, position i of both lists is feature i, the train
\* list holds train instances and the val list val instances, and no
\* instance is on both lists or twice on one.
C17_PairedExtractors ==
    phase \notin {"BUILD"} /\ err # "build" =>
       /\ Len(train_extractors) = fe_list
       /\ Len(val_extractors) = fe_list
       /\ \A i \in 1..fe_list :
             /\ train_extractors[i] = <<"train", i>>
             /\ val_extractors[i] = <<"val", i>>
       /\ Range(train_extractors) \cap Range(val_extractors) = {}
       /\ Cardinality(Range(train_extractors)) = fe_list
       /\ Cardinality(Range(val_extractors)) = fe_list

\* C17 witness: two features were built and the first batch went to all
\* four instances, each called once.
C17_Witness ==
    /\ fe_list = 2
    /\ phase = "RUN" /\ train_batch = 1
    /\ \A inst \in Instances : Len(calls[inst]) = 1


\* the constructor has raised before the manager that holds train_data and
\* val_data exists, so that nothing can have been pulled
RaisedBeforeData ==
    /\ ctor.line = "raised"
    /\ "manager" \notin ctor.created
    /\ train_pulled = 0 /\ val_pulled = 0

\* the constructor is past the statement that follows `line`
Past(line) ==
    LET order == <<"sources", "data_config", "classes", "classes_to_use",
                   "extractors", "batch_processor", "super", "done">>
        at(l) == CHOOSE i \in 1..Len(order) : order[i] = l
    IN  ctor.line \in Range(order) /\ at(ctor.line) > at(line)

\* C18: the check of n_classes and class_names raises a configuration
\* error exactly when both or neither were supplied, an empty list and a
\* zero included, before any data can be pulled; when one was supplied the
\* check passes with class_names bound to the list given, or to the
\* strings of 0..n_classes-1.
C18_ClassesExactlyOne ==
    LET n == ctor.args.n_classes
        names == ctor.args.class_names
        raised == ctor.error \in {"classes_conflict", "classes_missing"}
    IN  (Past("classes") \/ (ctor.line = "raised" /\ ctor.error # "sources_conflict"))
        => /\ raised <=> ((n # Nothing) <=> (names # Nothing))
           /\ raised => RaisedBeforeData
           /\ ~raised => /\ Past("classes")
                         /\ ctor.class_names = IF names # Nothing THEN names
                                               ELSE Some(RangeNames(n[1]))

\* C19: a class_names_to_use with a name that is not in class_names makes
\* the constructor raise before any data can be pulled; otherwise it is
\* kept, and an omitted or empty one becomes the whole of class_names.
C19_ClassesToUseSubset ==
    LET use == ctor.args.class_names_to_use
        invalid == use # Nothing /\ Range(use[1]) \ Range(ctor.class_names[1]) # {}
    IN  (Past("classes_to_use") \/ ctor.error = "classes_to_use_invalid")
        => /\ ctor.error = "classes_to_use_invalid" <=> invalid
           /\ invalid => RaisedBeforeData /\ "batch_processor" \notin ctor.created
           /\ ~invalid =>
                 ctor.class_names_to_use =
                    IF use = Nothing \/ use[1] = <<>> THEN ctor.class_names ELSE use

\* C19 witness: with n_classes = 2 the names are "0" and "1", and a
\* class_names_to_use holding "x" was refused.
C19_Witness ==
    /\ ctor.error = "classes_to_use_invalid"
    /\ ctor.args.n_classes = Some(2)
    /\ ctor.class_names = Some(<<"0", "1">>)
    /\ ctor.args.class_names_to_use = Some(<<"0", "x">>)

\* C20: with feature_extractors and config_path both supplied the
\* constructor raises at its first statement: no data config, no
\* extractor, no batch processor and no manager is made, nothing pulled.
C20_SourcesConflictFirst ==
    (ctor.line # "idle" /\ ctor.args.feature_extractors /\ ctor.args.config_path
       /\ ctor.line # "sources")
    => /\ ctor.error = "sources_conflict"
       /\ ctor.created = {}
       /\ RaisedBeforeData

\* C20 witness: the conflict was raised for arguments that pass every
\* other check.
C20_Witness ==
    /\ ctor.error = "sources_conflict"
    /\ ctor.line = "raised"
    /\ ctor.args.n_classes = Some(2) /\ ctor.args.class_names = Nothing
    /\ ctor.args.class_names_to_use = Some(<<"1">>)


\* C27: a batch whose preprocessing fails is skipped: the failure does
\* not leave the run.
C27_ShapeErrorSkipped == err # "preprocess"

\* C28: an extractor whose process raises is contained: the exception
\* does not leave post_process, and the run goes on to close.
C28_AggregateFailureContained == err # "process"

\* C29: once run() has returned or raised, no batch is pulled and no
\* extractor is called or written any more.
C29_TerminalQuiet ==
    [][(phase \in {"DONE", "FAILED"}) =>
          (/\ calls' = calls /\ acc' = acc
           /\ train_pulled' = train_pulled /\ val_pulled' = val_pulled)]_vars

\* the number of execute calls made on the i-th extractor of a split
Done(split, i) == Len(calls[<<split, i>>])

\* C30: in sequential mode every update is made by the calling thread, and
\* an update of the i-th extractor of a split with batch k is made when the
\* batch pulled last from that split is k, the extractors before it have
\* had batch k, those after it have had k - 1 batches, and the other split
\* is through: for a train update the val extractors have had every val
\* batch pulled, for a val update the train extractors every train batch.
C30_SequentialOrder ==
    /\ [](debug_mode => queue = <<>> /\ running = {})
    /\ [][debug_mode =>
           \A inst \in Instances :
              calls'[inst] # calls[inst] =>
                 LET split == inst[1]
                     other == IF split = "train" THEN "val" ELSE "train"
                     k == Pulled(inst)
                 IN  (/\ calls'[inst] = Append(calls[inst], k)
                      /\ Done(split, inst[2]) = k - 1
                      /\ \A m \in Instances \ {inst} : calls'[m] = calls[m]
                      /\ \A i \in 1..fe_list :
                            /\ i < inst[2] => Done(split, i) = k
                            /\ i > inst[2] => Done(split, i) = k - 1
                            /\ Done(other, i) = Pulled(<<other, i>>))]_vars

\* C30 witness: two features and a validation split, two iterations made
\* in sequential mode, each of the four extractors called with batch 1
\* and then batch 2.
C30_Witness ==
    /\ debug_mode /\ fe_list = 2
    /\ train_pulled = 2 /\ val_pulled = 2
    /\ \A inst \in Instances : calls[inst] = <<1, 2>>


\* the batches of one split the extractor was updated with, in order
SeenOf(split) == SelectSeq(fx.seen, LAMBDA data : data.split = split)

\* what an extractor holds for one split
Slice(st, split) ==
    [a \in DOMAIN st |-> st[a][split]]

\* C21: what a split-keyed extractor holds for a split changes only in an
\* update with a batch of that split; no aggregate changes it.
C21_SplitIsolation ==
    [][fx.kind \in SplitKeyed =>
          \A s \in SplitNames :
             Slice(fx'.st, s) # Slice(fx.st, s)
                => fx'.op.name = "update" /\ fx'.op.split = s]_vars

\* the images of resolution res in the batches of a split
Observed(split, res) ==
    LET seen == SeenOf(split)
        places == UNION {{<<i, n>> : n \in 1..Len(seen[i].images)} : i \in 1..Len(seen)}
    IN  Cardinality({p \in places : seen[p[1]].images[p[2]] = res})

\* C26: after an aggregate of ImagesResolutions both splits hold the same
\* keys, the resolutions seen in either split, each with the number of
\* images of that split that have it, zero where there is none.
C26_SplitKeyUnion ==
    (fx.kind = "ImagesResolutions" /\ fx.op.name = "aggregate") =>
       \A s \in SplitNames :
          /\ Range(Keys(fx.st._hist[s])) =
                {res \in Resolutions : \E t \in SplitNames : Observed(t, res) > 0}
          /\ \A i \in 1..Len(fx.st._hist[s]) :
                fx.st._hist[s][i][2] = Observed(s, fx.st._hist[s][i][1])

\* C26 witness: one resolution seen in train only, the other in val only,
\* and after the aggregate each split holds the other's with a zero.
C26_Witness ==
    /\ fx.kind = "ImagesResolutions" /\ fx.op.name = "aggregate"
    /\ fx.st._hist.train = <<<<"(1, 1)", 1>>, <<"(2, 1)", 0>>>>
    /\ fx.st._hist.val = <<<<"(2, 1)", 1>>, <<"(1, 1)", 0>>>>

\* the attributes an extractor of this class has after these updates and
\* no aggregate
RECURSIVE Replay(_, _, _)
Replay(kind, st, batches) ==
    IF batches = <<>> THEN st
    ELSE Replay(kind, FxUpdate(kind, st, Head(batches)).st, Tail(batches))

Front(seq) == SubSeq(seq, 1, Len(seq) - 1)

\* C22: an aggregate returns what an aggregate of an extractor that got the
\* same updates and was never aggregated returns (so a repeated aggregate
\* returns the same again), and an update after an aggregate succeeds or
\* fails as it does on an extractor that was never aggregated.
C22_AggregateIdempotent ==
    /\ fx.op.name = "aggregate" =>
          LET r == FxAggregate(fx.kind, Replay(fx.kind, fx.init, fx.seen),
                               fx.op.split)
          IN  fx.op.raised = r.raised /\ fx.out = r.out
    /\ fx.op.name = "update" =>
          fx.op.raised =
             FxUpdate(fx.kind, Replay(fx.kind, fx.init, Front(fx.seen)),
                      fx.seen[Len(fx.seen)]).raised

\* no update has reached what aggregate(split) reads
EmptyState(split) ==
    IF fx.kind \in SplitKeyed THEN SeenOf(split) = <<>> ELSE fx.seen = <<>>

IsNan(value) == value[2] = 0

\* C23: an aggregate on a state no update has reached raises nothing and
\* returns no value that comes from a division by a zero total.
C23_EmptyStateAggregate ==
    (fx.op.name = "aggregate" /\ EmptyState(fx.op.split)) =>
       /\ fx.op.raised = "none"
       /\ \A i \in 1..Len(fx.out.values) : ~IsNan(fx.out.values[i])

\* the orders of the updates that keep every place with its split
Reorders ==
    {p \in [1..Len(fx.seen) -> 1..Len(fx.seen)] :
        /\ \A a, b \in 1..Len(fx.seen) : p[a] = p[b] => a = b
        /\ \A a \in 1..Len(fx.seen) : fx.seen[p[a]].split = fx.seen[a].split}

\* what aggregate(split) returns after these updates
Output(batches, split) ==
    LET r == FxAggregate(fx.kind, Replay(fx.kind, fx.init, batches), split)
    IN  <<r.raised, r.out>>

\* C24: the updates an extractor got, applied in any other order within
\* each split, give the same output of aggregate for every split.
C24_AccumulationCommutes ==
    \A p \in Reorders : \A split \in FxSplits(fx.kind) :
       Output([a \in 1..Len(fx.seen) |-> fx.seen[p[a]]], split) = Output(fx.seen, split)

\* the extractors whose output is a histogram
HistogramKinds ==
    {"ImagesResolutions", "GetClassDistribution",
     "SegmentationGetClassDistribution", "SegmentationCountNumObjects"}

\* C25: the values a histogram extractor returns from an aggregate on a
\* state that updates have reached, with no call that raised before it, lie
\* in [0, 1] and sum to 1.
C25_HistogramNormalized ==
    (/\ fx.kind \in HistogramKinds
     /\ fx.op.name = "aggregate" /\ ~fx.failed
     /\ ~EmptyState(fx.op.split)) =>
       /\ \A i \in 1..Len(fx.out.values) :
             fx.out.values[i][2] > 0 /\ fx.out.values[i][1] <= fx.out.values[i][2]
       /\ FracSum(fx.out.values) = Whole(1)

\* the bins (from 0) of SegmentationCountNumObjects that hold a count
NonZeroBins == {k \in 0..(Len(fx.st._hist) - 1) : fx.st._hist[k + 1] > 0}

\* C31: process of SegmentationCountNumObjects on a histogram with a count
\* in some bin returns m + 1 values, m the highest bin that holds a count.
C31_CutToHighestBin ==
    (/\ fx.kind = "SegmentationCountNumObjects"
     /\ fx.op.name = "aggregate"
     /\ NonZeroBins # {}) =>
       \A m \in NonZeroBins :
          (\A k \in NonZeroBins : k <= m) => Len(fx.out.values) = m + 1

\* the images, as <<update, place in its batch>>, an extractor was given
ImagesSeen ==
    UNION {{<<a, n>> : n \in 1..Len(fx.seen[a].contours)} : a \in 1..Len(fx.seen)}

\* C32: SegmentationCountNumObjects keeps 51 bins, no execute raises, and
\* bin k holds the number of images given so far that have k contours in
\* all, so that the bins add up to the number of images.
C32_OneBinPerImage ==
    fx.kind = "SegmentationCountNumObjects" =>
       /\ Len(fx.st._hist) = HistBins
       /\ fx.op.name = "update" => fx.op.raised = "none"
       /\ \A k \in 0..(HistBins - 1) :
             fx.st._hist[k + 1] =
                Cardinality({p \in ImagesSeen : SumLens(fx.seen[p[1]].contours[p[2]]) = k})
       /\ FracSum([i \in 1..HistBins |-> Whole(fx.st._hist[i])])
             = Whole(Cardinality(ImagesSeen))

\* the contours of one class in these class lists
RECURSIVE ContoursOf(_, _)
ContoursOf(lists, class_id) ==
    IF lists = <<>> THEN 0
    ELSE (IF Head(lists).class_id = class_id THEN Head(lists).n ELSE 0)
         + ContoursOf(Tail(lists), class_id)

\* the class lists of all the batches of a split
ListsOf(split) ==
    Flatten([a \in 1..Len(SeenOf(split)) |-> Flatten(SeenOf(split)[a].contours)])

RECURSIVE SumOf(_)
SumOf(counts) == IF counts = <<>> THEN 0 ELSE Head(counts) + SumOf(Tail(counts))

\* C33: in GetClassDistribution the counts of a split add up to its
\* _total_objects; before any aggregate, the count of a class is the number
\* of contours of that class in the batches of the split; and the values an
\* aggregate returns for a split with objects sum to 1.
C33_CountsMatchTotal ==
    fx.kind = "GetClassDistribution" =>
       /\ \A s \in SplitNames : SumOf(Vals(fx.st._hist[s])) = fx.st._total_objects[s]
       /\ fx.aggregates = 0 =>
             \A s \in SplitNames : \A i \in 1..Len(fx.st._hist[s]) :
                fx.st._hist[s][i][2] = ContoursOf(ListsOf(s), fx.st._hist[s][i][1])
       /\ (fx.op.name = "aggregate" /\ fx.st._total_objects[fx.op.split] > 0) =>
             FracSum(fx.out.values) = Whole(1)

\* C33 witness: train got two contours of class 1, then one of class 0 and
\* one of class 1, and the aggregate returns 1/4 and 3/4.
C33_Witness ==
    /\ fx.kind = "GetClassDistribution"
    /\ fx.op.name = "aggregate" /\ fx.op.split = "train"
    /\ fx.st._total_objects.train = 4
    /\ fx.out.values = <<<<1, 4>>, <<3, 4>>>>

\* C34: in AppearancesInImages, before any aggregate, no update raises, no
\* class of a split is counted more often than the split has images, and
\* the number of images of a split is the number of labels in its batches.
C34_AppearancesBounded ==
    (fx.kind = "AppearancesInImages" /\ fx.aggregates = 0) =>
       /\ fx.op.name = "update" => fx.op.raised = "none"
       /\ \A s \in SplitNames :
             /\ \A i \in 1..Len(fx.st._hist[s]) :
                   fx.st._hist[s][i][2] <= fx.st._number_of_images[s]
             /\ fx.st._number_of_images[s] =
                   SumOf([a \in 1..Len(SeenOf(s)) |-> Len(SeenOf(s)[a].labels)])

\* C35: never more val batches pulled than train batches, none without a
\* val iterator; between the train pull of an iteration and its val pull
\* the val count is below the train count; and the val count changes only
\* by one, at the val step of an iteration that has pulled its train batch.
C35_ValFollowsTrain ==
    /\ [](/\ val_pulled <= train_pulled
          /\ (~val_given => val_pulled = 0)
          /\ ((phase = "RUN" /\ pc \in {"fan_train", "val"}) => val_pulled < train_pulled))
    /\ [][(val_pulled' # val_pulled) =>
             (/\ val_pulled' = val_pulled + 1
              /\ phase = "RUN" /\ pc = "val"
              /\ train_pulled' = train_pulled
              /\ val_pulled < train_pulled)]_vars

\* C35 witness: the val iterator gave out after one batch and the loop
\* went on to pull a third train batch.
C35_Witness ==
    /\ val_given /\ val_stopped
    /\ val_pulled = 1 /\ train_pulled = 3

=============================================================================
